---- MODULE Spec2Model ----
(***************************************************************************)
(* The poker hand evaluator of card-game-go: cards, the 5-card classifier  *)
(* (evaluateHand), the comparator (CompareHands), the combination          *)
(* generator (generateCombinations), the best-hand search                  *)
(* (EvaluateBestHand) and Hold'em winner resolution (DetermineWinner).     *)
(***************************************************************************)
EXTENDS Integers, Sequences, FiniteSets, TLC

VARIABLES
    pc,             \* position of the driver of the specification in use
    inHands,        \* the 5-card hands handed to evaluateHand
    results,        \* the HandResult of each hand of inHands
    cmp,            \* cmp[i][j] = CompareHands(results[i], results[j])
    cards,          \* the cards handed to EvaluateBestHand
    combinations,   \* EvaluateBestHand's local: generateCombinations(cards, 5)
    bestHand,       \* EvaluateBestHand's HandResult
    err,            \* EvaluateBestHand's error ("" is nil)
    Deck,           \* Game.Deck
    Hands,          \* Game.Hands
    CommunityCards, \* HoldemGame.CommunityCards
    PlayerHands,    \* HoldemGame.PlayerHands
    winner,         \* the PlayerHand DetermineWinner returned
    gameErr,        \* the error the last game operation returned ("" is nil)
    lastCall,       \* the last call of the dealing driver, and their number
    clients,        \* Hub.clients: the clients of the map
    Send,           \* each client's Send channel: the messages it buffers
    sendClosed,     \* how many times close(client.Send) has run, per client
    sendPanic,      \* a send on a closed Send channel has run
    registered,     \* the clients whose register event Hub.Run has taken
    dropped,        \* the clients a broadcast has dropped
    writer,         \* each client's WritePump: "running" or "returned"
    hubEvent        \* the last event Hub.Run has taken

vars == <<pc, inHands, results, cmp, cards, combinations, bestHand, err,
          Deck, Hands, CommunityCards, PlayerHands, winner, gameErr, lastCall,
          clients, Send, sendClosed, sendPanic, registered, dropped, writer,
          hubEvent>>

evalVars == <<cards, combinations, bestHand, err>>
handVars == <<inHands, results, cmp>>
gameVars == <<Deck, Hands, CommunityCards, PlayerHands, winner, gameErr, lastCall>>
hubVars == <<clients, Send, sendClosed, sendPanic, registered, dropped, writer, hubEvent>>

----------------------------------------------------------------------------
(* Cards *)

Spades == 0
Hearts == 1
Diamonds == 2
Clubs == 3
MaxCardValue == 13

Card(s, v) == [Suit |-> s, Value |-> v]

IsValidCard(c) ==
    c.Suit >= Spades /\ c.Suit <= Clubs /\ c.Value >= 1 /\ c.Value <= MaxCardValue

\* NewDeck: suits in order, values 1..13 within each suit.
NewDeck ==
    [i \in 1..((Clubs - Spades + 1) * MaxCardValue) |->
        Card(Spades + ((i - 1) \div MaxCardValue), 1 + ((i - 1) % MaxCardValue))]

----------------------------------------------------------------------------
(* Hand ranks and results *)

HighCard == 0
Pair == 1
TwoPair == 2
ThreeOfAKind == 3
Straight == 4
Flush == 5
FullHouse == 6
FourOfAKind == 7
StraightFlush == 8
RoyalFlush == 9

HandSize == 5
AceHigh == 14

HandResult(rank, name, cs, high) ==
    [Rank |-> rank, Name |-> name, Cards |-> cs, HighCards |-> high]

\* Go's HandResult{}.
ZeroHandResult == HandResult(HighCard, "", <<>>, <<>>)

getComparisonValue(c) == IF c.Value = 1 THEN AceHigh ELSE c.Value

Swap(s, i, j) == [s EXCEPT ![i] = s[j], ![j] = s[i]]

\* sort.Slice on at most 12 elements is an insertion sort; less(i, j) is
\* getComparisonValue(s[i]) > getComparisonValue(s[j]).
RECURSIVE siftCard(_, _)
siftCard(s, j) ==
    IF j > 1 /\ getComparisonValue(s[j]) > getComparisonValue(s[j - 1])
    THEN siftCard(Swap(s, j, j - 1), j - 1)
    ELSE s

RECURSIVE sortCardsFrom(_, _)
sortCardsFrom(s, i) ==
    IF i > Len(s) THEN s ELSE sortCardsFrom(siftCard(s, i), i + 1)

\* The sort started one element late.
sortCards_FromThird(hand) == sortCardsFrom(hand, 3)

sortCards(hand) == sortCardsFrom(hand, 2)

\* sort.Sort(sort.Reverse(sort.IntSlice(values))): less(i, j) is v[j] < v[i].
RECURSIVE siftInt(_, _)
siftInt(v, j) ==
    IF j > 1 /\ v[j - 1] < v[j]
    THEN siftInt(Swap(v, j, j - 1), j - 1)
    ELSE v

RECURSIVE sortIntsFrom(_, _)
sortIntsFrom(v, i) ==
    IF i > Len(v) THEN v ELSE sortIntsFrom(siftInt(v, i), i + 1)

sortIntsDesc(v) == sortIntsFrom(v, 2)

checkFlush(hand) ==
    \A i \in 2..Len(hand) : hand[i].Suit = hand[1].Suit

\* checkStraight reporting the Ace as the high card of Ace-5-4-3-2.
checkStraight_AceLowReportsAce(hand) ==
    LET values == sortIntsDesc([i \in 1..Len(hand) |-> getComparisonValue(hand[i])])
        isStraight == \A i \in 2..Len(values) : values[i - 1] = values[i] + 1
    IN  IF isStraight THEN <<TRUE, values[1]>>
        ELSE IF values[1] = AceHigh /\ values[2] = 5 /\ values[3] = 4
                /\ values[4] = 3 /\ values[5] = 2
        THEN <<TRUE, values[1]>>
        ELSE <<FALSE, 0>>

\* Returns <<isStraight, highCard>>.
checkStraight(hand) ==
    LET values == sortIntsDesc([i \in 1..Len(hand) |-> getComparisonValue(hand[i])])
        isStraight == \A i \in 2..Len(values) : values[i - 1] = values[i] + 1
    IN  IF isStraight THEN <<TRUE, values[1]>>
        ELSE IF values[1] = AceHigh /\ values[2] = 5 /\ values[3] = 4
                /\ values[4] = 3 /\ values[5] = 2
        THEN <<TRUE, 5>>
        ELSE <<FALSE, 0>>

\* map[int]int: comparison value -> number of cards of the hand with it.
countValues(hand) ==
    LET present == {getComparisonValue(hand[i]) : i \in 1..Len(hand)}
    IN  [v \in present |->
            Cardinality({i \in 1..Len(hand) : getComparisonValue(hand[i]) = v})]

hasFourOfAKind(counts) == \E v \in DOMAIN counts : counts[v] = 4

\* hasFullHouse with hasThree || hasTwo.
hasFullHouse_EitherCount(counts) ==
    \/ \E v \in DOMAIN counts : counts[v] = 3
    \/ \E v \in DOMAIN counts : counts[v] = 2

hasFullHouse(counts) ==
    /\ \E v \in DOMAIN counts : counts[v] = 3
    /\ \E v \in DOMAIN counts : counts[v] = 2

hasThreeOfAKind(counts) == \E v \in DOMAIN counts : counts[v] = 3

countPairs(counts) == Cardinality({v \in DOMAIN counts : counts[v] = 2})

getHighCards(hand, count) ==
    [i \in 1..(IF count < Len(hand) THEN count ELSE Len(hand)) |->
        getComparisonValue(hand[i])]

cardValueToString(value) ==
    CASE value = 14 -> "A"
      [] value = 13 -> "K"
      [] value = 12 -> "Q"
      [] value = 11 -> "J"
      [] OTHER -> ToString(value)

evaluateHand(hand) ==
    LET sortedHand == sortCards(hand)
        isFlush == checkFlush(sortedHand)
        st == checkStraight(sortedHand)
        isStraight == st[1]
        highCard == st[2]
        valueCounts == countValues(sortedHand)
        pairCount == countPairs(valueCounts)
    IN  IF isFlush /\ isStraight THEN
            IF highCard = AceHigh
            THEN HandResult(RoyalFlush, "Royal Flush", sortedHand, <<AceHigh>>)
            ELSE HandResult(StraightFlush, "Straight Flush", sortedHand, <<highCard>>)
        ELSE IF isFlush THEN
            HandResult(Flush, "Flush", sortedHand, getHighCards(sortedHand, 5))
        ELSE IF isStraight THEN
            HandResult(Straight, "Straight", sortedHand, <<highCard>>)
        ELSE IF hasFourOfAKind(valueCounts) THEN
            HandResult(FourOfAKind, "Four of a Kind", sortedHand, getHighCards(sortedHand, 2))
        ELSE IF hasFullHouse(valueCounts) THEN
            HandResult(FullHouse, "Full House", sortedHand, getHighCards(sortedHand, 2))
        ELSE IF hasThreeOfAKind(valueCounts) THEN
            HandResult(ThreeOfAKind, "Three of a Kind", sortedHand, getHighCards(sortedHand, 3))
        ELSE IF pairCount = 2 THEN
            HandResult(TwoPair, "Two Pair", sortedHand, getHighCards(sortedHand, 3))
        ELSE IF pairCount = 1 THEN
            HandResult(Pair, "Pair", sortedHand, getHighCards(sortedHand, 4))
        ELSE
            HandResult(HighCard,
                       "High Card " \o cardValueToString(getComparisonValue(sortedHand[1])),
                       sortedHand, getHighCards(sortedHand, 5))

\* The first index at which the two keys differ, 0 when there is none
\* within the shorter of the two.
RECURSIVE firstDiff(_, _, _)
firstDiff(a, b, i) ==
    IF i > Len(a) \/ i > Len(b) THEN 0
    ELSE IF a[i] # b[i] THEN i
    ELSE firstDiff(a, b, i + 1)

\* CompareHands with the ranks subtracted the wrong way round.
CompareHands_RankReversed(hand1, hand2) ==
    IF hand1.Rank # hand2.Rank THEN hand2.Rank - hand1.Rank
    ELSE LET i == firstDiff(hand1.HighCards, hand2.HighCards, 1)
         IN  IF i # 0 THEN hand1.HighCards[i] - hand2.HighCards[i] ELSE 0

CompareHands(hand1, hand2) ==
    IF hand1.Rank # hand2.Rank THEN hand1.Rank - hand2.Rank
    ELSE LET i == firstDiff(hand1.HighCards, hand2.HighCards, 1)
         IN  IF i # 0 THEN hand1.HighCards[i] - hand2.HighCards[i] ELSE 0

----------------------------------------------------------------------------
(* The combination generator and the best-hand search *)

\* generate(start, k) with combo as built so far: the combinations it
\* appends to combos, in order. genLoop is its for loop from index i on.
RECURSIVE generate(_, _, _, _), genLoop(_, _, _, _)
generate(cs, start, k, combo) ==
    IF k = 0 THEN <<combo>> ELSE genLoop(cs, start, k, combo)

\* The loop running from len(cards)-k down to start.
genLoop_Descending(cs, i, k, combo) ==
    IF i > Len(cs) - k + 1 THEN <<>>
    ELSE genLoop(cs, i + 1, k, combo) \o generate(cs, i + 1, k - 1, Append(combo, cs[i]))

genLoop(cs, i, k, combo) ==
    IF i > Len(cs) - k + 1 THEN <<>>
    ELSE generate(cs, i + 1, k - 1, Append(combo, cs[i])) \o genLoop(cs, i + 1, k, combo)

generateCombinations(cs, k) == generate(cs, 1, k, <<>>)

\* The loop of EvaluateBestHand over combos[i..], best being bestHand so far.
RECURSIVE bestFrom(_, _, _)
bestFrom(combos, i, best) ==
    IF i > Len(combos) THEN best
    ELSE LET result == evaluateHand(combos[i])
         IN  bestFrom(combos, i + 1,
                      IF CompareHands(result, best) > 0 THEN result ELSE best)

ErrNotEnoughCards == "not enough cards to evaluate hand"

\* EvaluateBestHand looping over combinations[1:], the first combination
\* being taken as evaluated by the placeholder.
EvaluateBestHand_SkipFirst(cs) ==
    IF Len(cs) < HandSize THEN <<(<<>>), ZeroHandResult, ErrNotEnoughCards>>
    ELSE LET combos == generateCombinations(cs, HandSize)
             first == HandResult(HighCard, "High Card", combos[1],
                                 getHighCards(combos[1], 5))
         IN  <<combos, bestFrom(combos, 2, first), "">>

\* Returns <<combinations, bestHand, err>>.
\* The size test off by one: 5 cards are refused too.
EvaluateBestHand_RefusesFive(cs) ==
    IF Len(cs) <= HandSize THEN <<(<<>>), ZeroHandResult, ErrNotEnoughCards>>
    ELSE LET combos == generateCombinations(cs, HandSize)
             first == HandResult(HighCard, "High Card", combos[1],
                                 getHighCards(combos[1], 5))
         IN  <<combos, bestFrom(combos, 1, first), "">>

EvaluateBestHand(cs) ==
    IF Len(cs) < HandSize THEN <<(<<>>), ZeroHandResult, ErrNotEnoughCards>>
    ELSE LET combos == generateCombinations(cs, HandSize)
             first == HandResult(HighCard, "High Card", combos[1],
                                 getHighCards(combos[1], 5))
         IN  <<combos, bestFrom(combos, 1, first), "">>

----------------------------------------------------------------------------
(* The deck, the game and Hold'em *)

ErrNoCards == "no cards left in the deck"

\* A Draw that leaves the drawn card on the deck.
Draw_KeepsCard(d) ==
    IF Len(d) = 0 THEN <<Card(0, 0), d, ErrNoCards>>
    ELSE <<d[1], d, "">>

\* Deck.Draw: <<card, deck, err>>; the card of an error is Go's Card{}.
Draw(d) ==
    IF Len(d) = 0 THEN <<Card(0, 0), d, ErrNoCards>>
    ELSE <<d[1], SubSeq(d, 2, Len(d)), "">>

\* A Deal that draws before it tests the hand index.
Deal_DrawsFirst(d, hs, handIndex) ==
    LET drawn == Draw(d)
    IN  IF handIndex < 0 \/ handIndex >= Len(hs) THEN <<drawn[2], hs, ErrNoCards>>
        ELSE IF drawn[3] # "" THEN <<drawn[2], hs, drawn[3]>>
        ELSE <<drawn[2],
               [hs EXCEPT ![handIndex + 1] = Append(@, drawn[1])],
               "">>

\* Game.Deal on hand handIndex (from 0): <<deck, hands, err>>.
Deal(d, hs, handIndex) ==
    IF handIndex < 0 \/ handIndex >= Len(hs) THEN <<d, hs, ErrNoCards>>
    ELSE LET drawn == Draw(d)
         IN  IF drawn[3] # "" THEN <<drawn[2], hs, drawn[3]>>
             ELSE <<drawn[2],
                    [hs EXCEPT ![handIndex + 1] = Append(@, drawn[1])],
                    "">>

PlayerHand(player, hole, result) ==
    [Player |-> player, HoleCards |-> hole, HandResult |-> result]

\* Go's PlayerHand{}.
ZeroPlayerHand == PlayerHand(0, <<>>, ZeroHandResult)

NumPlayers == 2

\* The loops of DealHoleCards from round i, hand handIndex on:
\* <<deck, hands, err>>, stopping at the first Deal that fails.
RECURSIVE dealHoleFrom(_, _, _, _)
dealHoleFrom(d, hs, i, handIndex) ==
    IF i >= 2 THEN <<d, hs, "">>
    ELSE IF handIndex >= Len(hs) THEN dealHoleFrom(d, hs, i + 1, 0)
    ELSE LET dealt == Deal(d, hs, handIndex)
         IN  IF dealt[3] # ""
             THEN <<dealt[1], dealt[2],
                    "error dealing to hand " \o ToString(handIndex) \o ": " \o dealt[3]>>
             ELSE dealHoleFrom(dealt[1], dealt[2], i, handIndex + 1)

\* The loop of DealCommunityCards from round i on: <<deck, community, err>>.
RECURSIVE dealCommunityFrom(_, _, _)
dealCommunityFrom(d, cc, i) ==
    IF i >= 5 THEN <<d, cc, "">>
    ELSE LET drawn == Draw(d)
         IN  IF drawn[3] # ""
             THEN <<drawn[2], cc, "error dealing community card: " \o drawn[3]>>
             ELSE dealCommunityFrom(drawn[2], Append(cc, drawn[1]), i + 1)

\* The loop of EvaluateHands from hand i (from 1) on: <<playerHands, err>>.
RECURSIVE evaluateHandsFrom(_, _, _, _)
evaluateHandsFrom(hs, cc, phs, i) ==
    IF i > Len(hs) THEN <<phs, "">>
    ELSE LET out == EvaluateBestHand(hs[i] \o cc)
         IN  IF out[3] # ""
             THEN <<phs, "error evaluating hand for player " \o ToString(i) \o ": " \o out[3]>>
             ELSE evaluateHandsFrom(hs, cc,
                      [phs EXCEPT ![i] = PlayerHand(i, hs[i], out[2])], i + 1)

HoldemGame_getComparisonValue(c) == IF c.Value = 1 THEN 14 ELSE c.Value

\* The loop of breakTie from hole card i (from 1) on.
RECURSIVE breakTieFrom(_, _, _)
breakTieFrom(hand1, hand2, i) ==
    IF i > Len(hand1.HoleCards) \/ i > Len(hand2.HoleCards) THEN hand1
    ELSE LET value1 == HoldemGame_getComparisonValue(hand1.HoleCards[i])
             value2 == HoldemGame_getComparisonValue(hand2.HoleCards[i])
         IN  IF value1 > value2 THEN hand1
             ELSE IF value2 > value1 THEN hand2
             ELSE breakTieFrom(hand1, hand2, i + 1)

breakTie(hand1, hand2) == breakTieFrom(hand1, hand2, 1)

\* The loop of DetermineWinner from player i (from 1) on.
RECURSIVE determineWinnerFrom(_, _, _)
determineWinnerFrom(phs, i, w) ==
    IF i > Len(phs) THEN w
    ELSE LET comparison == CompareHands(phs[i].HandResult, w.HandResult)
         IN  determineWinnerFrom(phs, i + 1,
                 IF comparison > 0 THEN phs[i]
                 ELSE IF comparison = 0 THEN breakTie(w, phs[i])
                 ELSE w)

DetermineWinner(phs) == determineWinnerFrom(phs, 2, phs[1])

----------------------------------------------------------------------------
(* Inputs of the classifier *)

\* The non-empty subsequences of s that keep s's order, by length:
\* the index tuples i1 < i2 < ... < ik.
RECURSIVE IndexTuples(_, _, _)
IndexTuples(from, n, k) ==
    IF k = 0 THEN {<<>>}
    ELSE UNION {{<<i>> \o t : t \in IndexTuples(i + 1, n, k - 1)} : i \in from..(n - k + 1)}

Pick(s, t) == [j \in 1..Len(t) |-> s[t[j]]]

Reverse(s) == [i \in 1..Len(s) |-> s[Len(s) + 1 - i]]

\* The classifier's inputs: the spades, and of the other suits the cards of
\* raw value at most LowTop.
LowTop == 4

InClassifyPool(c) == c.Suit = Spades \/ c.Value <= LowTop

ClassifyPool == SelectSeq(NewDeck, InClassifyPool)

\* No call of the dealing driver yet.
NoCall == [op |-> "", handIndex |-> 0, n |-> 0]

\* No hub and no client.
NoHub ==
    /\ clients = {}
    /\ Send = <<>>
    /\ sendClosed = <<>>
    /\ sendPanic = FALSE
    /\ registered = {}
    /\ dropped = {}
    /\ writer = <<>>
    /\ hubEvent = <<>>

NoGame ==
    /\ Deck = <<>>
    /\ Hands = <<>>
    /\ CommunityCards = <<>>
    /\ PlayerHands = <<>>
    /\ winner = ZeroPlayerHand
    /\ gameErr = ""
    /\ lastCall = NoCall
    /\ NoHub

NoEval ==
    /\ cards = <<>>
    /\ combinations = <<>>
    /\ bestHand = ZeroHandResult
    /\ err = ""

InitClassify ==
    /\ pc = "start"
    /\ \E t \in IndexTuples(1, Len(ClassifyPool), HandSize) :
          inHands = <<Pick(ClassifyPool, t)>>
    /\ results = <<>>
    /\ cmp = <<>>
    /\ NoEval
    /\ NoGame

\* evaluateHand on every hand of inHands.
ClassifyHands ==
    /\ pc = "start"
    /\ results' = [i \in 1..Len(inHands) |-> evaluateHand(inHands[i])]
    /\ pc' = "classified"
    /\ UNCHANGED <<inHands, cmp, evalVars, gameVars, hubVars>>

\* CompareHands on every pair of results.
CompareAll ==
    /\ pc = "classified"
    /\ cmp' = [i \in 1..Len(results) |->
                 [j \in 1..Len(results) |-> CompareHands(results[i], results[j])]]
    /\ pc' = "compared"
    /\ UNCHANGED <<inHands, results, evalVars, gameVars, hubVars>>

NextHands == ClassifyHands \/ CompareAll

SpecClassify == InitClassify /\ [][ClassifyHands]_vars

\* The inputs of the permutation check: any 5 cards of the first PermuteSize
\* cards of PermuteCards, and the same 5 cards in any other order.
PermuteCards ==
    <<Card(Spades, 1), Card(Spades, 2), Card(Spades, 3), Card(Spades, 4),
      Card(Hearts, 5), Card(Spades, 5), Card(Hearts, 2), Card(Spades, 13),
      Card(Diamonds, 2), Card(Diamonds, 5), Card(Spades, 9)>>

PermuteSize == 9

PermutePool ==
    SubSeq(PermuteCards, 1,
           IF PermuteSize < Len(PermuteCards) THEN PermuteSize ELSE Len(PermuteCards))

OrdersOf(n) ==
    {p \in [1..n -> 1..n] : \A i \in 1..n : \A j \in 1..n : i # j => p[i] # p[j]}

Permuted(s, p) == [i \in 1..Len(s) |-> s[p[i]]]

InitPermute ==
    /\ pc = "start"
    /\ \E t \in IndexTuples(1, Len(PermutePool), HandSize) :
          \E p \in OrdersOf(HandSize) :
              inHands = <<Pick(PermutePool, t), Permuted(Pick(PermutePool, t), p)>>
    /\ results = <<>>
    /\ cmp = <<>>
    /\ NoEval
    /\ NoGame

SpecPermute == InitPermute /\ [][ClassifyHands]_vars

\* The comparator's inputs: three hands, each any 5 cards of the first
\* SampleSize cards of SampleCards.
SampleCards ==
    <<Card(Spades, 2), Card(Hearts, 2), Card(Spades, 3), Card(Hearts, 3),
      Card(Spades, 4), Card(Spades, 13), Card(Spades, 12), Card(Hearts, 4),
      Card(Diamonds, 2)>>

SampleSize == 7

ComparePool == SubSeq(SampleCards, 1, SampleSize)

SampleHands == {Pick(ComparePool, t) : t \in IndexTuples(1, Len(ComparePool), HandSize)}

InitCompare ==
    /\ pc = "start"
    /\ \E x \in SampleHands : \E y \in SampleHands : \E z \in SampleHands :
          inHands = <<x, y, z>>
    /\ results = <<>>
    /\ cmp = <<>>
    /\ NoEval
    /\ NoGame

SpecCompare == InitCompare /\ [][NextHands]_vars

\* The inputs of EvaluateBestHand: 0 to MaxCards cards of the
\* first EvalSize cards of EvalCards, in three orders.
EvalCards ==
    <<Card(Spades, 1), Card(Spades, 13), Card(Spades, 12), Card(Spades, 11),
      Card(Spades, 10), Card(Spades, 9), Card(Hearts, 9), Card(Diamonds, 9),
      Card(Clubs, 9), Card(Hearts, 13), Card(Hearts, 5)>>

EvalSize == 9
MaxCards == 7

EvalPool == SubSeq(EvalCards, 1, IF EvalSize < Len(EvalCards) THEN EvalSize ELSE Len(EvalCards))

Rotate(s) == IF Len(s) < 3 THEN s ELSE SubSeq(s, 3, Len(s)) \o SubSeq(s, 1, 2)

Orderings(s) == {s, Reverse(s), Rotate(s)}

InitEval ==
    /\ pc = "start"
    /\ \E n \in 0..MaxCards :
          \E t \in IndexTuples(1, Len(EvalPool), n) :
              cards \in Orderings(Pick(EvalPool, t))
    /\ combinations = <<>>
    /\ bestHand = ZeroHandResult
    /\ err = ""
    /\ inHands = <<>>
    /\ results = <<>>
    /\ cmp = <<>>
    /\ NoGame

EvaluateBest ==
    /\ pc = "start"
    /\ LET out == EvaluateBestHand(cards)
       IN  /\ combinations' = out[1]
           /\ bestHand' = out[2]
           /\ err' = out[3]
    /\ pc' = "evaluated"
    /\ UNCHANGED <<cards, handVars, gameVars, hubVars>>

SpecEval == InitEval /\ [][EvaluateBest]_vars

\* Inputs of EvaluateBestHand that need not be cards of a deck: HandSize to
\* MaxCards of the 5 highest spades and the first InvalidSize cards of
\* InvalidCards, whose value or suit IsValidCard rejects.
InvalidCards ==
    <<Card(Spades, MaxCardValue + 1), Card(Spades, 0), Card(Clubs + 1, 9),
      Card(Spades - 1, 2)>>

InvalidSize == 3

AnyPool ==
    SubSeq(EvalCards, 1, HandSize)
        \o SubSeq(InvalidCards, 1,
                  IF InvalidSize < Len(InvalidCards) THEN InvalidSize ELSE Len(InvalidCards))

InitEvalAny ==
    /\ pc = "start"
    /\ \E n \in HandSize..MaxCards :
          \E t \in IndexTuples(1, Len(AnyPool), n) :
              cards = Pick(AnyPool, t)
    /\ combinations = <<>>
    /\ bestHand = ZeroHandResult
    /\ err = ""
    /\ inHands = <<>>
    /\ results = <<>>
    /\ cmp = <<>>
    /\ NoGame

SpecEvalAny == InitEvalAny /\ [][EvaluateBest]_vars

\* The shuffled decks of the Hold'em games: on top, in one of three orders,
\* 9 of the first ShuffleSize cards of ShuffleCards; below, the rest of the
\* new deck in its order.
ShuffleCards ==
    <<Card(Hearts, 2), Card(Diamonds, 4), Card(Diamonds, 3), Card(Diamonds, 2),
      Card(Spades, 1), Card(Hearts, 13), Card(Diamonds, 12), Card(Clubs, 11),
      Card(Spades, 10), Card(Clubs, 7), Card(Hearts, 8), Card(Clubs, 4)>>

ShuffleSize == 11

ShufflePool ==
    SubSeq(ShuffleCards, 1,
           IF ShuffleSize < Len(ShuffleCards) THEN ShuffleSize ELSE Len(ShuffleCards))

CardsOf(s) == {s[i] : i \in 1..Len(s)}

Without(d, top) == SelectSeq(d, LAMBDA c : c \notin CardsOf(top))

\* holdem.NewGame(NumPlayers), after cardgame.NewGame's Shuffle.
InitHoldem ==
    /\ pc = "new"
    /\ \E t \in IndexTuples(1, Len(ShufflePool), 2 * NumPlayers + 5) :
          \E top \in Orderings(Pick(ShufflePool, t)) :
              Deck = top \o Without(NewDeck, top)
    /\ Hands = [i \in 1..NumPlayers |-> <<>>]
    /\ CommunityCards = <<>>
    /\ PlayerHands = [i \in 1..NumPlayers |-> ZeroPlayerHand]
    /\ winner = ZeroPlayerHand
    /\ gameErr = ""
    /\ lastCall = NoCall
    /\ NoHub
    /\ inHands = <<>>
    /\ results = <<>>
    /\ cmp = <<>>
    /\ NoEval

\* PlayHoldem stops at the first step that fails.
Step(to, e) == pc' = IF e # "" THEN "failed" ELSE to

DealHoleCards ==
    /\ pc = "new"
    /\ LET out == dealHoleFrom(Deck, Hands, 0, 0)
       IN  /\ Deck' = out[1]
           /\ Hands' = out[2]
           /\ gameErr' = out[3]
           /\ Step("hole", out[3])
    /\ UNCHANGED <<CommunityCards, PlayerHands, winner, handVars, evalVars, lastCall, hubVars>>

DealCommunityCards ==
    /\ pc = "hole"
    /\ LET out == dealCommunityFrom(Deck, CommunityCards, 0)
       IN  /\ Deck' = out[1]
           /\ CommunityCards' = out[2]
           /\ gameErr' = out[3]
           /\ Step("community", out[3])
    /\ UNCHANGED <<Hands, PlayerHands, winner, handVars, evalVars, lastCall, hubVars>>

EvaluateHands ==
    /\ pc = "community"
    /\ LET out == evaluateHandsFrom(Hands, CommunityCards, PlayerHands, 1)
       IN  /\ PlayerHands' = out[1]
           /\ gameErr' = out[2]
           /\ Step("hands", out[2])
    /\ UNCHANGED <<Deck, Hands, CommunityCards, winner, handVars, evalVars, lastCall, hubVars>>

DetermineWinnerStep ==
    /\ pc = "hands"
    /\ winner' = DetermineWinner(PlayerHands)
    /\ pc' = "done"
    /\ UNCHANGED <<Deck, Hands, CommunityCards, PlayerHands, gameErr, handVars, evalVars, lastCall, hubVars>>

NextHoldem ==
    \/ DealHoleCards
    \/ DealCommunityCards
    \/ EvaluateHands
    \/ DetermineWinnerStep

SpecHoldem == InitHoldem /\ [][NextHoldem]_vars

\* The dealing driver: a Hold'em game on which Deal (to any hand index, in
\* range or not), DealHoleCards and DealCommunityCards are called in any
\* order, at most MaxCalls times. It starts from a new game, or from a game
\* whose deck earlier Deal calls, hand after hand, have brought down to
\* TailCards cards.
MaxCalls == 4
TailCards == 3

\* k calls of Deal from hand handIndex on, hand after hand: <<deck, hands>>.
RECURSIVE dealtRound(_, _, _, _)
dealtRound(d, hs, k, handIndex) ==
    IF k = 0 THEN <<d, hs>>
    ELSE LET dealt == Deal(d, hs, handIndex)
         IN  dealtRound(dealt[1], dealt[2], k - 1, (handIndex + 1) % Len(hs))

InitDeal ==
    /\ pc = "dealing"
    /\ \E d \in Orderings(NewDeck) : \E k \in {0, Len(NewDeck) - TailCards} :
          LET dealt == dealtRound(d, [i \in 1..NumPlayers |-> <<>>], k, 0)
          IN  /\ Deck = dealt[1]
              /\ Hands = dealt[2]
    /\ CommunityCards = <<>>
    /\ PlayerHands = [i \in 1..NumPlayers |-> ZeroPlayerHand]
    /\ winner = ZeroPlayerHand
    /\ gameErr = ""
    /\ lastCall = NoCall
    /\ NoHub
    /\ inHands = <<>>
    /\ results = <<>>
    /\ cmp = <<>>
    /\ NoEval

Called(op, handIndex) == [op |-> op, handIndex |-> handIndex, n |-> lastCall.n + 1]

\* Game.Deal(handIndex).
DealCall ==
    /\ pc = "dealing"
    /\ lastCall.n < MaxCalls
    /\ \E handIndex \in (-1)..NumPlayers :
          LET out == Deal(Deck, Hands, handIndex)
          IN  /\ Deck' = out[1]
              /\ Hands' = out[2]
              /\ gameErr' = out[3]
              /\ lastCall' = Called("Deal", handIndex)
    /\ UNCHANGED <<pc, CommunityCards, PlayerHands, winner, handVars, evalVars, hubVars>>

\* HoldemGame.DealHoleCards().
DealHoleCardsCall ==
    /\ pc = "dealing"
    /\ lastCall.n < MaxCalls
    /\ LET out == dealHoleFrom(Deck, Hands, 0, 0)
       IN  /\ Deck' = out[1]
           /\ Hands' = out[2]
           /\ gameErr' = out[3]
           /\ lastCall' = Called("DealHoleCards", 0)
    /\ UNCHANGED <<pc, CommunityCards, PlayerHands, winner, handVars, evalVars, hubVars>>

\* HoldemGame.DealCommunityCards().
DealCommunityCardsCall ==
    /\ pc = "dealing"
    /\ lastCall.n < MaxCalls
    /\ LET out == dealCommunityFrom(Deck, CommunityCards, 0)
       IN  /\ Deck' = out[1]
           /\ CommunityCards' = out[2]
           /\ gameErr' = out[3]
           /\ lastCall' = Called("DealCommunityCards", 0)
    /\ UNCHANGED <<pc, Hands, PlayerHands, winner, handVars, evalVars, hubVars>>

NextDeal ==
    \/ DealCall
    \/ DealHoleCardsCall
    \/ DealCommunityCardsCall

SpecDeal == InitDeal /\ [][NextDeal]_vars

----------------------------------------------------------------------------
(* The websocket hub *)

\* The clients that may connect, and the capacity of a client's Send channel.
NumClients == 2
SendCap == 1

Clients == 1..NumClients

\* The message Hub.Broadcast marshals.
Message == "message"

\* What one pass of Hub.Run leaves: the client map, the Send channels, the
\* count of close(client.Send) per client, the clients the pass dropped and
\* whether it sent on a closed channel.
HubState(cs, snd, closed, drops, panic) ==
    [clients |-> cs, Send |-> snd, sendClosed |-> closed, dropped |-> drops,
     sendPanic |-> panic]

\* case client := <-h.register.
hubRegister(cs, snd, closed, client) ==
    HubState(cs \cup {client}, snd, closed, {}, FALSE)

\* case client := <-h.unregister.
hubUnregister(cs, snd, closed, client) ==
    IF client \in cs
    THEN HubState(cs \ {client}, snd, [closed EXCEPT ![client] = @ + 1], {}, FALSE)
    ELSE HubState(cs, snd, closed, {}, FALSE)

\* client.Send <- message can proceed: the channel has room. (A send on a
\* closed channel is chosen too, and panics.)
CanSend(snd, closed, client) == closed[client] > 0 \/ Len(snd[client]) < SendCap

\* A broadcast whose default branch closes the channel and leaves the client
\* in the map.
hubBroadcast_KeepsDropped(cs, snd, closed, message) ==
    LET full == {c \in cs : ~CanSend(snd, closed, c)}
    IN  HubState(cs,
                 [c \in DOMAIN snd |->
                     IF c \in cs \ full /\ closed[c] = 0
                     THEN Append(snd[c], message) ELSE snd[c]],
                 [c \in DOMAIN closed |->
                     IF c \in full THEN closed[c] + 1 ELSE closed[c]],
                 full,
                 \E c \in cs \ full : closed[c] > 0)

\* case message := <-h.broadcast: every client of the map is sent the
\* message, or closed and deleted when its channel cannot take it. The
\* clients are handled one by one, each on its own channel, so the order of
\* the map's iteration does not show in the result.
hubBroadcast(cs, snd, closed, message) ==
    LET full == {c \in cs : ~CanSend(snd, closed, c)}
    IN  HubState(cs \ full,
                 [c \in DOMAIN snd |->
                     IF c \in cs \ full /\ closed[c] = 0
                     THEN Append(snd[c], message) ELSE snd[c]],
                 [c \in DOMAIN closed |->
                     IF c \in full THEN closed[c] + 1 ELSE closed[c]],
                 full,
                 \E c \in cs \ full : closed[c] > 0)

\* NewHub, and clients whose Send channels are open and empty and whose
\* WritePumps run.
InitHub ==
    /\ pc = "hub"
    /\ clients = {}
    /\ Send = [c \in Clients |-> <<>>]
    /\ sendClosed = [c \in Clients |-> 0]
    /\ sendPanic = FALSE
    /\ registered = {}
    /\ dropped = {}
    /\ writer = [c \in Clients |-> "running"]
    /\ hubEvent = <<>>
    /\ Deck = <<>>
    /\ Hands = <<>>
    /\ CommunityCards = <<>>
    /\ PlayerHands = <<>>
    /\ winner = ZeroPlayerHand
    /\ gameErr = ""
    /\ lastCall = NoCall
    /\ inHands = <<>>
    /\ results = <<>>
    /\ cmp = <<>>
    /\ NoEval

\* Hub.Run has panicked: a send on a closed channel, or a second close.
Crashed == sendPanic \/ \E c \in Clients : sendClosed[c] > 1

\* Hub.Run takes out, the result of one of its cases.
HubTakes(out, event) ==
    /\ clients' = out.clients
    /\ Send' = out.Send
    /\ sendClosed' = out.sendClosed
    /\ sendPanic' = out.sendPanic
    /\ dropped' = dropped \cup out.dropped
    /\ hubEvent' = event

\* Hub.Run takes a client's registration; a client registers once.
Register ==
    /\ pc = "hub"
    /\ ~Crashed
    /\ \E client \in Clients \ registered :
          /\ HubTakes(hubRegister(clients, Send, sendClosed, client),
                      <<"register", client>>)
          /\ registered' = registered \cup {client}
    /\ UNCHANGED <<pc, writer, handVars, evalVars, gameVars>>

\* Hub.Run takes the unregistration a ReadPump sends as it returns.
Unregister ==
    /\ pc = "hub"
    /\ ~Crashed
    /\ \E client \in Clients :
          HubTakes(hubUnregister(clients, Send, sendClosed, client),
                   <<"unregister", client>>)
    /\ UNCHANGED <<pc, registered, writer, handVars, evalVars, gameVars>>

\* Hub.Run takes a message of Hub.Broadcast.
Broadcast ==
    /\ pc = "hub"
    /\ ~Crashed
    /\ HubTakes(hubBroadcast(clients, Send, sendClosed, Message),
                <<"broadcast", Message>>)
    /\ UNCHANGED <<pc, registered, writer, handVars, evalVars, gameVars>>

\* WritePump receives a message and writes it; it returns when the write
\* fails.
WritePumpReceive ==
    /\ pc = "hub"
    /\ \E client \in Clients : \E written \in BOOLEAN :
          /\ writer[client] = "running"
          /\ Len(Send[client]) > 0
          /\ Send' = [Send EXCEPT ![client] = Tail(@)]
          /\ writer' = [writer EXCEPT ![client] = IF written THEN @ ELSE "returned"]
    /\ UNCHANGED <<pc, clients, sendClosed, sendPanic, registered, dropped, hubEvent,
                   handVars, evalVars, gameVars>>

\* WritePump finds its channel closed and empty, and returns.
WritePumpClosed ==
    /\ pc = "hub"
    /\ \E client \in Clients :
          /\ writer[client] = "running"
          /\ Len(Send[client]) = 0
          /\ sendClosed[client] > 0
          /\ writer' = [writer EXCEPT ![client] = "returned"]
    /\ UNCHANGED <<pc, clients, Send, sendClosed, sendPanic, registered, dropped,
                   hubEvent, handVars, evalVars, gameVars>>

NextHub ==
    \/ Register
    \/ Unregister
    \/ Broadcast
    \/ WritePumpReceive
    \/ WritePumpClosed

SpecHub == InitHub /\ [][NextHub]_vars

----------------------------------------------------------------------------
(* What the claims say of a 5-card hand, stated on the cards themselves *)

ValuesOf(h) == {getComparisonValue(h[i]) : i \in 1..Len(h)}

CountOf(h, v) == Cardinality({i \in 1..Len(h) : getComparisonValue(h[i]) = v})

ValuesWithCount(h, n) == {v \in ValuesOf(h) : CountOf(h, v) = n}

SetMax(S) == CHOOSE x \in S : \A y \in S : y <= x
SetMin(S) == CHOOSE x \in S : \A y \in S : x <= y

OneSuit(h) == Cardinality({h[i].Suit : i \in 1..Len(h)}) = 1

AceLowValues == {AceHigh, 5, 4, 3, 2}

Consecutive(h) ==
    /\ Cardinality(ValuesOf(h)) = HandSize
    /\ SetMax(ValuesOf(h)) - SetMin(ValuesOf(h)) = HandSize - 1

StraightValues(h) == Consecutive(h) \/ ValuesOf(h) = AceLowValues

StraightHigh(h) == IF Consecutive(h) THEN SetMax(ValuesOf(h)) ELSE 5

\* The first category that matches, in the priority order of the
\* classification.
PriorityRank(h) ==
    CASE OneSuit(h) /\ StraightValues(h) /\ StraightHigh(h) = AceHigh -> RoyalFlush
      [] OneSuit(h) /\ StraightValues(h) -> StraightFlush
      [] ValuesWithCount(h, 4) # {} -> FourOfAKind
      [] ValuesWithCount(h, 3) # {} /\ ValuesWithCount(h, 2) # {} -> FullHouse
      [] OneSuit(h) -> Flush
      [] StraightValues(h) -> Straight
      [] ValuesWithCount(h, 3) # {} -> ThreeOfAKind
      [] Cardinality(ValuesWithCount(h, 2)) = 2 -> TwoPair
      [] Cardinality(ValuesWithCount(h, 2)) = 1 -> Pair
      [] OTHER -> HighCard

\* The values of h that are not in S, highest first.
RECURSIVE DescendingFrom(_)
DescendingFrom(S) ==
    IF S = {} THEN <<>> ELSE <<SetMax(S)>> \o DescendingFrom(S \ {SetMax(S)})

Classified == pc \in {"classified", "compared"}

\* h with every card of comparison value v given the raw value w.
Revalue(h, v, w) ==
    [i \in 1..Len(h) |->
        IF getComparisonValue(h[i]) = v THEN Card(h[i].Suit, w) ELSE h[i]]

----------------------------------------------------------------------------
(* C1 *)

\* C1: EvaluateBestHand on 7 cards holding the four cards of a value q
\* returns FourOfAKind with key <<q, highest of the three other values>>.
C1_ConcealedQuadsKey ==
    (pc = "evaluated" /\ Len(cards) = 7) =>
        \A q \in ValuesWithCount(cards, 4) :
            /\ err = ""
            /\ bestHand.Rank = FourOfAKind
            /\ bestHand.HighCards = <<q, SetMax(ValuesOf(cards) \ {q})>>

----------------------------------------------------------------------------
(* C2 *)

\* C2: every hand of three cards of value t and two cards of value p is a
\* FullHouse whose tie-break key is <<t, p>>, triple value first.
C2_FullHouseKeyTripleThenPair ==
    Classified =>
        \A i \in 1..Len(inHands) :
            \A t \in ValuesWithCount(inHands[i], 3) :
                \A p \in ValuesWithCount(inHands[i], 2) :
                    /\ results[i].Rank = FullHouse
                    /\ results[i].HighCards = <<t, p>>

----------------------------------------------------------------------------
(* C3 *)

TwoPairKey(h) ==
    <<SetMax(ValuesWithCount(h, 2)), SetMin(ValuesWithCount(h, 2)),
      SetMax(ValuesWithCount(h, 1))>>

\* C3: a TwoPair hand's key is <<higher pair, lower pair, kicker>>, and it
\* compares Greater than the TwoPair hand that differs from it only in
\* having a smaller lower pair.
C3_TwoPairKeyOrdersLowerPair ==
    Classified =>
        \A i \in 1..Len(inHands) :
            results[i].Rank = TwoPair =>
                /\ results[i].HighCards = TwoPairKey(inHands[i])
                /\ \A w \in 2..MaxCardValue :
                      (/\ w < SetMin(ValuesWithCount(inHands[i], 2))
                       /\ w \notin ValuesOf(inHands[i]))
                      => CompareHands(results[i],
                            evaluateHand(Revalue(inHands[i],
                                SetMin(ValuesWithCount(inHands[i], 2)), w))) > 0

----------------------------------------------------------------------------
(* C4 *)

PairKey(h) ==
    <<SetMax(ValuesWithCount(h, 2))>> \o DescendingFrom(ValuesWithCount(h, 1))

\* C4: a Pair hand's key is <<pair, kicker1, kicker2, kicker3>>, kickers
\* descending, and of two Pair hands the one with the higher pair compares
\* Greater whatever the kickers are.
C4_PairKeyPairFirst ==
    Classified =>
        \A i \in 1..Len(inHands) :
            results[i].Rank = Pair =>
                /\ results[i].HighCards = PairKey(inHands[i])
                /\ \A j \in 1..Len(inHands) :
                      (/\ pc = "compared"
                       /\ results[j].Rank = Pair
                       /\ SetMax(ValuesWithCount(inHands[i], 2))
                            > SetMax(ValuesWithCount(inHands[j], 2)))
                      => cmp[i][j] > 0

----------------------------------------------------------------------------
(* C5 *)

\* C5: the rank of every classified hand is the first category that matches
\* in the priority order RoyalFlush, StraightFlush, FourOfAKind, FullHouse,
\* Flush, Straight, ThreeOfAKind, TwoPair, Pair, HighCard.
C5_RankIsFirstMatchInPriorityOrder ==
    Classified =>
        \A i \in 1..Len(inHands) : results[i].Rank = PriorityRank(inHands[i])

\* A full house has been classified: a category the code tests after the
\* flush and the straight.
C5_Witness ==
    /\ pc = "classified"
    /\ results[1].Rank = FullHouse
    /\ ValuesWithCount(inHands[1], 3) # {}

----------------------------------------------------------------------------
(* C6 *)

StraightRanks == {Straight, StraightFlush, RoyalFlush}

\* C6: a hand is a straight exactly when its values are five consecutive
\* values or Ace-5-4-3-2; the Ace-low straight reports 5 as its high value
\* and is never a RoyalFlush; Ten to Ace of one suit is a RoyalFlush.
C6_StraightDetection ==
    Classified =>
        \A i \in 1..Len(inHands) :
            LET h == inHands[i]
                r == results[i]
            IN  /\ (r.Rank \in StraightRanks) <=> StraightValues(h)
                /\ (r.Rank \in {Straight, StraightFlush})
                      => r.HighCards = <<StraightHigh(h)>>
                /\ ValuesOf(h) = AceLowValues =>
                      /\ r.HighCards = <<5>>
                      /\ r.Rank = (IF OneSuit(h) THEN StraightFlush ELSE Straight)
                /\ (ValuesOf(h) = 10..AceHigh /\ OneSuit(h)) => r.Rank = RoyalFlush
                /\ r.Rank = RoyalFlush => ValuesOf(h) = 10..AceHigh

\* The Ace-low straight of one suit has been classified a StraightFlush
\* with high value 5.
C6_Witness ==
    /\ pc = "classified"
    /\ ValuesOf(inHands[1]) = AceLowValues
    /\ OneSuit(inHands[1])
    /\ results[1].Rank = StraightFlush
    /\ results[1].HighCards = <<5>>

----------------------------------------------------------------------------
(* C7 *)

\* C7: when two players' evaluated hands compare Equal, winner resolution
\* reports neither of them as the winner over the other.
C7_EqualHandsSplitThePot ==
    pc = "done" =>
        \A i \in 1..Len(PlayerHands) : \A j \in 1..Len(PlayerHands) :
            (/\ i # j
             /\ CompareHands(PlayerHands[i].HandResult, PlayerHands[j].HandResult) = 0)
            => winner.Player \notin {i, j}

----------------------------------------------------------------------------
(* C8 *)

FiveCardSubsets(cs) == {Pick(cs, t) : t \in IndexTuples(1, Len(cs), HandSize)}

\* C8: the result of EvaluateBestHand on 5 or more cards is a maximum under
\* CompareHands over all 5-card subsets, and its rank and key are those of
\* the classification of one of them.
C8_BestHandIsMaximum ==
    (pc = "evaluated" /\ Len(cards) >= HandSize) =>
        /\ err = ""
        /\ \A h \in FiveCardSubsets(cards) :
              CompareHands(evaluateHand(h), bestHand) <= 0
        /\ \E h \in FiveCardSubsets(cards) :
              /\ evaluateHand(h).Rank = bestHand.Rank
              /\ evaluateHand(h).HighCards = bestHand.HighCards

\* Seven cards have been evaluated whose best hand is not the first
\* combination: it ranks above the first five cards.
C8_Witness ==
    /\ pc = "evaluated"
    /\ Len(cards) = 7
    /\ bestHand.Rank > evaluateHand(SubSeq(cards, 1, HandSize)).Rank
    /\ evaluateHand(SubSeq(cards, 1, HandSize)).Rank = HighCard

----------------------------------------------------------------------------
(* C9 *)

\* C9: over classified hands CompareHands is a strict total preorder:
\* compare(x, x) is Equal, compare(x, y) is Greater exactly when
\* compare(y, x) is Less, Greater-or-Equal and Equal are transitive, and a
\* hand of strictly higher rank compares Greater.
C9_CompareIsTotalPreorder ==
    pc = "compared" =>
        \A i \in 1..Len(results) : \A j \in 1..Len(results) :
            /\ cmp[i][i] = 0
            /\ (cmp[i][j] > 0) <=> (cmp[j][i] < 0)
            /\ (cmp[i][j] = 0) <=> (cmp[j][i] = 0)
            /\ results[i].Rank > results[j].Rank => cmp[i][j] > 0
            /\ \A k \in 1..Len(results) :
                  /\ (cmp[i][j] >= 0 /\ cmp[j][k] >= 0) => cmp[i][k] >= 0
                  /\ (cmp[i][j] = 0 /\ cmp[j][k] = 0) => cmp[i][k] = 0
                  /\ (cmp[i][j] > 0 /\ cmp[j][k] >= 0) => cmp[i][k] > 0

\* Three hands of three ranks have been compared, the hand of higher rank
\* winning against a key that starts higher than its own.
C9_Witness ==
    /\ pc = "compared"
    /\ Len(results) = 3
    /\ results[1].Rank > results[2].Rank
    /\ results[2].Rank > results[3].Rank
    /\ results[1].HighCards[1] < results[2].HighCards[1]
    /\ cmp[1][2] > 0
    /\ cmp[2][3] > 0
    /\ cmp[1][3] > 0

----------------------------------------------------------------------------
(* C10 *)

RECURSIVE Binomial(_, _)
Binomial(n, k) ==
    IF k = 0 THEN 1
    ELSE IF n = 0 THEN 0
    ELSE Binomial(n - 1, k - 1) + Binomial(n - 1, k)

IndexIn(cs, c) == CHOOSE i \in 1..Len(cs) : cs[i] = c

IndicesIn(cs, combo) == [j \in 1..Len(combo) |-> IndexIn(cs, combo[j])]

\* Lexicographic order of two tuples of the same length.
LexLess(a, b) ==
    \E i \in 1..Len(a) :
        /\ a[i] < b[i]
        /\ \A j \in 1..(i - 1) : a[j] = b[j]

\* C10: on n >= 5 distinct cards generateCombinations(cards, 5) returns the
\* C(n, 5) 5-card subsets, each once, each in input order, the whole in
\* lexicographic order of the input indices.
C10_CombinationsCompleteAndOrdered ==
    (pc = "evaluated" /\ Len(cards) >= HandSize) =>
        /\ Len(combinations) = Binomial(Len(cards), HandSize)
        /\ Len(cards) = 7 => Len(combinations) = 21
        /\ {combinations[a] : a \in 1..Len(combinations)} = FiveCardSubsets(cards)
        /\ \A a \in 1..Len(combinations) :
              LET ix == IndicesIn(cards, combinations[a])
              IN  /\ Len(combinations[a]) = HandSize
                  /\ \A j \in 1..(HandSize - 1) : ix[j] < ix[j + 1]
                  /\ \A j \in 1..HandSize : combinations[a][j] = cards[ix[j]]
        /\ \A a \in 1..(Len(combinations) - 1) :
              LexLess(IndicesIn(cards, combinations[a]),
                      IndicesIn(cards, combinations[a + 1]))

\* Seven cards have been combined into 21 hands.
C10_Witness ==
    /\ pc = "evaluated"
    /\ Len(cards) = 7
    /\ Len(combinations) = 21
    /\ combinations[1] = SubSeq(cards, 1, HandSize)
    /\ combinations[21] = SubSeq(cards, 3, 7)

----------------------------------------------------------------------------
(* C11 *)

ComparisonValues(cs) == [i \in 1..Len(cs) |-> getComparisonValue(cs[i])]

\* C11: two orderings of the same 5 distinct valid cards classify to the
\* same rank, the same name and the same tie-break key, and to the same
\* cards in descending comparison value.
C11_PermutationInvariant ==
    Classified =>
        \A i \in 1..Len(inHands) : \A j \in 1..Len(inHands) :
            CardsOf(inHands[i]) = CardsOf(inHands[j]) =>
                /\ results[i].Rank = results[j].Rank
                /\ results[i].Name = results[j].Name
                /\ results[i].HighCards = results[j].HighCards
                /\ CardsOf(results[i].Cards) = CardsOf(inHands[i])
                /\ CardsOf(results[j].Cards) = CardsOf(inHands[i])
                /\ ComparisonValues(results[i].Cards) = ComparisonValues(results[j].Cards)
                /\ \A a \in 1..(HandSize - 1) :
                      getComparisonValue(results[i].Cards[a])
                          >= getComparisonValue(results[i].Cards[a + 1])

\* A full house classified from two different orderings of its cards; the
\* cards of equal value have kept the order each input had them in.
C11_Witness ==
    /\ Classified
    /\ Len(inHands) = 2
    /\ inHands[1] # inHands[2]
    /\ CardsOf(inHands[1]) = CardsOf(inHands[2])
    /\ results[1].Rank = FullHouse
    /\ results[2].Rank = FullHouse
    /\ results[1].Cards # results[2].Cards

----------------------------------------------------------------------------
(* C12 *)

HasInvalidCard(cs) == \E i \in 1..Len(cs) : ~IsValidCard(cs[i])

\* C12: EvaluateBestHand on cards that include an invalid card (value
\* outside 1..13 or suit outside the four suits) returns an error and no
\* hand result.
C12_InvalidCardRejected ==
    (pc = "evaluated" /\ HasInvalidCard(cards)) =>
        /\ err # ""
        /\ bestHand = ZeroHandResult

----------------------------------------------------------------------------
(* C13 *)

\* C13: EvaluateBestHand returns the not-enough-cards error and no hand
\* result exactly when it is given fewer than 5 cards; on 5 or more valid
\* cards it returns no error and a result made of 5 of the cards.
C13_ErrorIffFewerThanFive ==
    pc = "evaluated" =>
        /\ (err # "") <=> (Len(cards) < HandSize)
        /\ err # "" => (err = ErrNotEnoughCards /\ bestHand = ZeroHandResult)
        /\ err = "" =>
              /\ bestHand # ZeroHandResult
              /\ bestHand.Name # ""
              /\ Len(bestHand.Cards) = HandSize
              /\ CardsOf(bestHand.Cards) \subseteq CardsOf(cards)

\* Four cards have been refused.
C13_Witness ==
    /\ pc = "evaluated"
    /\ Len(cards) = HandSize - 1
    /\ err = ErrNotEnoughCards
    /\ bestHand = ZeroHandResult

----------------------------------------------------------------------------
(* C14 *)

RECURSIVE ConcatFrom(_, _)
ConcatFrom(ss, i) == IF i > Len(ss) THEN <<>> ELSE ss[i] \o ConcatFrom(ss, i + 1)

Concat(ss) == ConcatFrom(ss, 1)

\* The cards of the game, wherever they are.
CardsInPlay == Deck \o Concat(Hands) \o CommunityCards

GameExists == Len(Hands) = NumPlayers

\* C14: a new deck holds 52 cards, one per (suit, value) pair, and in every
\* state of a game each of the 52 cards is in exactly one of the deck, one
\* player's hand and the community cards.
C14_EveryCardInOnePlace ==
    /\ Len(NewDeck) = 52
    /\ CardsOf(NewDeck) = {Card(s, v) : s \in Spades..Clubs, v \in 1..MaxCardValue}
    /\ Cardinality(CardsOf(NewDeck)) = 52
    /\ GameExists =>
          /\ Len(CardsInPlay) = 52
          /\ CardsOf(CardsInPlay) = CardsOf(NewDeck)
          /\ lastCall = NoCall /\ Concat(Hands) = <<>> => Len(Deck) = 52

\* Cards have gone to both hands and to the community cards.
C14_Witness ==
    /\ pc = "dealing"
    /\ lastCall.n >= 3
    /\ \A i \in 1..NumPlayers : Len(Hands[i]) >= 1
    /\ Len(CommunityCards) = 5
    /\ Len(Deck) < 52 - 5

----------------------------------------------------------------------------
(* C15 *)

\* The step is a call of Deal.
DealStep == lastCall'.op = "Deal" /\ lastCall'.n = lastCall.n + 1

\* C15: a Deal fails exactly when the hand index is out of range or the deck
\* is empty, and then changes neither the deck nor a hand; a Deal that
\* succeeds moves the first card of the deck to the end of the addressed
\* hand and leaves every other hand as it was.
C15_DealAllOrNothing ==
    [][DealStep =>
        LET handIndex == lastCall'.handIndex
            fails == handIndex < 0 \/ handIndex >= Len(Hands) \/ Deck = <<>>
        IN  /\ (gameErr' # "") <=> fails
            /\ CommunityCards' = CommunityCards
            /\ fails => (Deck' = Deck /\ Hands' = Hands)
            /\ ~fails =>
                  /\ Deck = <<Head(Deck)>> \o Deck'
                  /\ Len(Hands') = Len(Hands)
                  /\ Hands'[handIndex + 1] = Append(Hands[handIndex + 1], Head(Deck))
                  /\ \A j \in 1..Len(Hands) :
                        j # handIndex + 1 => Hands'[j] = Hands[j]]_vars

\* A Deal to a hand of the game has failed on the empty deck.
C15_Witness ==
    /\ pc = "dealing"
    /\ lastCall.op = "Deal"
    /\ lastCall.handIndex \in 0..(NumPlayers - 1)
    /\ gameErr = ErrNoCards
    /\ Deck = <<>>
    /\ Len(Concat(Hands) \o CommunityCards) = 52

----------------------------------------------------------------------------
(* C16 *)

\* C16: with each client registered at most once, Hub.Run closes a client's
\* Send channel at most once and never sends on a closed one: a client whose
\* channel is closed, by an unregistration or by a broadcast that dropped
\* it, is out of the client map from that step on, so the unregistration
\* that follows a drop closes nothing.
C16_SendClosedOnce ==
    pc = "hub" =>
        /\ ~sendPanic
        /\ \A c \in Clients :
              /\ sendClosed[c] <= 1
              /\ sendClosed[c] = 1 => c \notin clients
              /\ c \in dropped => (sendClosed[c] = 1 /\ c \notin clients)
              /\ c \in clients => c \in registered

\* Hub.Run has taken the unregistration of a client an earlier broadcast
\* dropped, while another client is still in the map.
C16_Witness ==
    /\ pc = "hub"
    /\ Len(hubEvent) = 2
    /\ hubEvent[1] = "unregister"
    /\ hubEvent[2] \in dropped
    /\ sendClosed[hubEvent[2]] = 1
    /\ clients # {}

====
